---- MODULE Spec2Model ----
(***************************************************************************)
(* Model of papis/downloaders/base.py: the Downloader base class, its      *)
(* fetch() orchestration, the lazy bibtex/document caches and the          *)
(* document format check.  A behaviour is the life of one downloader       *)
(* instance: its construction, the calls the caller makes itself on it     *)
(* (check_document_format, get_bibtex_data, get_document_data) and one     *)
(* fetch(), stage by stage (Spec).  SpecShared is a sequence of fetch()    *)
(* calls, by one or by several downloaders, on one shared context.         *)
(* SpecMeta is the module-level metadata extractor, parse_meta_headers()   *)
(* and parse_meta_authors(), called on one parsed document.                *)
(***************************************************************************)
EXTENDS Integers, Sequences, FiniteSets, TLC

\* ------------------------------------------------------------------------
\* Bounds
\* ------------------------------------------------------------------------
\* number of calls of check_document_format() and get_*_data() the caller
\* makes itself, before or after fetch()
MaxDirectCalls == 1
\* how many fetch() calls are made on one shared context in SpecShared
MaxFetches == 2
\* number of <meta> elements of a parsed document
MaxMetas == 4
\* number of calls of parse_meta_headers() / parse_meta_authors() on it
MaxParses == 2

\* ------------------------------------------------------------------------
\* Values
\* ------------------------------------------------------------------------
\* Python's None
NoneVal == "None"

\* the empty dict
EmptyDict == <<>>

\* the four stages of fetch(), in the order of the source text
Stages == <<"get_data", "bibtex", "doi", "document">>

\* dicts a get_data() implementation returns
DataResults ==
    { ("doi" :> "d_data") @@ ("title" :> "t_data") @@ ("year" :> "y_data") }

\* raw bibtex texts a server answers with; "" is the empty text
BibTexts == {"", "bib_noentry", "bib_malformed", "bib_two"}

\* raw document bytes a server answers with; "" is b""
DocBytes == {"", "bytes_pdf", "bytes_epub", "bytes_junk"}

\* values a get_doi() implementation returns (None and "" included)
DoiResults == {"d_doi", "", NoneVal}

\* contexts the caller hands to the constructor
InitialContexts ==
    { [data |-> EmptyDict, files |-> <<>>],
      [data |-> ("doi" :> "d_ctx") @@ ("title" :> "t_ctx") @@ ("note" :> "n_ctx"),
       files |-> <<0>>] }

\* expected_document_extension as subclasses set it: None, one tag, a list
Expectations ==
    { [kind |-> "none", tags |-> <<>>],
      [kind |-> "tag",  tags |-> <<"pdf">>],
      [kind |-> "list", tags |-> <<"pdf", "djvu">>] }

Capabilities == {"get_data", "bibtex", "doi", "document"}

\* ------------------------------------------------------------------------
\* Python helpers
\* ------------------------------------------------------------------------
\* truth value of a cache value: None, "" and b"" are falsy
Truthy(v) == v /= NoneVal /\ v /= ""

\* dict.update(new): keys of new overwrite
\* (DictUpdateKeepOld: the faulty variant in which present keys are kept)
\* (DictUpdateReplace: the faulty variant that rebinds instead of merging)
DictUpdateReplace(d, new) == new
DictUpdateKeepOld(d, new) ==
    [k \in DOMAIN d \cup DOMAIN new |-> IF k \in DOMAIN d THEN d[k] ELSE new[k]]
DictUpdate(d, new) ==
    [k \in DOMAIN d \cup DOMAIN new |-> IF k \in DOMAIN new THEN new[k] ELSE d[k]]

\* d[k] = v
\* (DictSetTruthy, DictSetIfAbsent: the faulty variants that assign only a
\* truthy value, or only when the key is absent)
DictSetTruthy(d, k, v) ==
    IF Truthy(v) THEN DictUpdate(d, k :> v) ELSE d
DictSetIfAbsent(d, k, v) ==
    IF k \in DOMAIN d THEN d ELSE DictUpdate(d, k :> v)
DictSet(d, k, v) == DictUpdate(d, k :> v)

\* the except clauses of fetch(): only NotImplementedError is caught
\* (CaughtNothing, CaughtEverything: the faulty variants without an except
\* clause, and with a bare except)
CaughtNothing(e) == FALSE
CaughtEverything(e) == e /= NoneVal
Caught(e) == e = "NotImplementedError"

\* papis.bibtex.bibtex_to_dict: raw text -> list of entries, or a parse error
bibtex_to_dict(text) ==
    CASE text = "bib_two" ->
            [err |-> NoneVal,
             list |-> << ("doi" :> "d_bib") @@ ("title" :> "t_bib")
                            @@ ("journal" :> "j_bib"),
                         ("title" :> "t_bib2") @@ ("year" :> "y_bib2") >>]
      [] text = "bib_malformed" ->
            [err |-> "BibtexParseError", list |-> <<>>]
      [] OTHER ->
            [err |-> NoneVal, list |-> <<>>]

\* filetype.guess(bytes).extension, NoneVal when the type is not identified
guess(bytes) ==
    CASE bytes = "bytes_pdf"  -> "pdf"
      [] bytes = "bytes_epub" -> "epub"
      [] OTHER -> NoneVal

SeqToSet(s) == {s[i] : i \in 1..Len(s)}

\* ------------------------------------------------------------------------
\* The metadata extractor: values
\* ------------------------------------------------------------------------
\* An attribute value that names a tag is <<letters, casing>>: the letters
\* in lower case and whether the text as written is all lower case.
\* NoTag is a missing attribute (attrs.get() gives None).
NoTag == <<>>
Tag(b) == <<b, "lower">>
MixedCase(b) == <<b, "mixed">>

\* str.lower()
Lower(t) == <<t[1], "lower">>

\* truth value of attrs.get(): None and "" are falsy
TagTruthy(t) == t /= NoTag /\ t[1] /= ""

\* A text is the sequence of its characters; NoneText is a missing content
\* attribute.
NoneText == <<NoneVal>>

\* the module-level table, key and field per line of the source
MetaPairs ==
    { <<"og:type", "type">>, <<"og:title", "title">>, <<"og:url", "url">>,
      <<"description", "abstract">>, <<"citation_doi", "doi">>,
      <<"citation_firstpage", "firstpage">>,
      <<"citation_lastpage", "lastpage">>,
      <<"citation_fulltext_html_url", "url">>,
      <<"citation_pdf_url", "pdf_url">>, <<"citation_issn", "issn">>,
      <<"citation_issue", "issue">>,
      <<"citation_journal_abbrev", "journal_abbrev">>,
      <<"citation_journal_title", "journal">>,
      <<"citation_language", "language">>,
      <<"citation_online_date", "online_date">>,
      <<"citation_publication_date", "publication_date">>,
      <<"citation_publisher", "publisher">>, <<"citation_title", "title">>,
      <<"citation_volume", "volume">>, <<"dc.publisher", "publisher">>,
      <<"dc.date", "date">>, <<"dc.language", "language">>,
      <<"dc.subject", "subject">>, <<"dc.title", "title">>,
      <<"keywords", "keywords">>, <<"dc.type", "type">>,
      <<"dc.description", "description">> }

meta_equivalences ==
    [t \in {Tag(p[1]) : p \in MetaPairs} |->
        (CHOOSE p \in MetaPairs : p[1] = t[1])[2]]

\* <meta> elements a page carries
MetaElement(name, property, content) ==
    [name |-> name, property |-> property, content |-> content]

MetaElements ==
    { MetaElement(MixedCase("citation_doi"), NoTag, <<"b">>),
      MetaElement(NoTag, Tag("og:title"), <<"a">>),
      MetaElement(Tag("viewport"), Tag("citation_title"), <<"b">>),
      MetaElement(Tag("x_custom"), NoTag, NoneText),
      MetaElement(Tag("citation_author"), NoTag, <<"J", " ", "P">>),
      MetaElement(Tag("citation_author"), NoTag, <<" ", "J">>),
      MetaElement(Tag("citation_author"), NoTag, NoneText),
      MetaElement(Tag("citation_author_institution"), NoTag, <<"a">>),
      MetaElement(Tag("citation_author_institution"), NoTag, NoneText) }

\* the documents: the <meta> elements in document order
Soups == UNION {[1..n -> MetaElements] : n \in 0..MaxMetas}

\* extra_equivalences a caller passes; EmptyDict is the default argument
ExtraChoices ==
    { EmptyDict,
      (Tag("citation_doi") :> "identifier") @@ (Tag("x_custom") :> "title"),
      (MixedCase("x_custom") :> "custom") @@ (Tag("og:title") :> "author") }

\* ------------------------------------------------------------------------
\* The metadata extractor: functions
\* ------------------------------------------------------------------------
\* soup.find_all(name='meta', attrs={'name': tag}): the name attribute is
\* compared as written
FindAll(soup, tag) == SelectSeq(soup, LAMBDA m : m.name = tag)

\* zip(authors, affs), or every author with None
\* (AuthorPairsKeepAuthors: the faulty variant that keeps the authors that
\* have no affiliation at their position)
AuthorPairsKeepAuthors(authors, affs) ==
    [i \in 1..Len(authors) |->
        [a |-> authors[i],
         affs |-> IF i <= Len(affs) THEN <<affs[i]>> ELSE <<>>]]
AuthorPairs(authors, affs) ==
    IF affs /= <<>> /\ authors /= <<>>
    THEN [i \in 1..(IF Len(authors) <= Len(affs) THEN Len(authors)
                                                 ELSE Len(affs)) |->
             [a |-> authors[i], affs |-> <<affs[i]>>]]
    ELSE [i \in 1..Len(authors) |-> [a |-> authors[i], affs |-> <<>>]]

\* \s
IsSpace(c) == c \in {" ", "\t"}

\* re.split('\s+', s): every run of whitespace separates, so a run at the
\* start or the end gives an empty token there
RECURSIVE Split(_)
Split(s) ==
    IF s = <<>> THEN << <<>> >>
    ELSE LET rest == Split(Tail(s))
         IN  IF IsSpace(Head(s))
             THEN IF Len(s) > 1 /\ IsSpace(s[2]) THEN rest
                  ELSE << <<>> >> \o rest
             ELSE << <<Head(s)>> \o Head(rest) >> \o Tail(rest)

\* ' '.join(tokens)
RECURSIVE Join(_)
Join(tokens) ==
    IF tokens = <<>> THEN <<>>
    ELSE IF Len(tokens) = 1 THEN tokens[1]
    ELSE tokens[1] \o <<" ">> \o Join(Tail(tokens))

\* the dict appended for one (author, affiliation) tuple
AuthorRecord(t) ==
    LET fullnames == Split(t.a.content)
    IN  [given |-> fullnames[1],
         family |-> Join(Tail(fullnames)),
         affiliation |-> [i \in 1..Len(t.affs) |-> [name |-> t.affs[i].content]]]

\* parse_meta_authors(soup); re.split() raises TypeError on a None content
parse_meta_authors(soup) ==
    LET authors == FindAll(soup, Tag("citation_author"))
        affs == FindAll(soup, Tag("citation_author_institution"))
        tuples == AuthorPairs(authors, affs)
    IN  IF \E i \in 1..Len(tuples) : tuples[i].a.content = NoneText
        THEN [err |-> "TypeError", list |-> <<>>]
        ELSE [err |-> NoneVal,
              list |-> [i \in 1..Len(tuples) |-> AuthorRecord(tuples[i])]]

\* papis.document.author_list_to_author: one text made of the records
RECURSIVE author_list_to_author(_)
author_list_to_author(list) ==
    IF list = <<>> THEN <<>>
    ELSE LET one == list[1].family \o <<",">> \o list[1].given
         IN  IF Len(list) = 1 THEN one
             ELSE one \o <<"&">> \o author_list_to_author(Tail(list))

\* _mname: the name attribute, or the property attribute when name is
\* missing or empty
\* (MnameNoFallback: the faulty variant that reads name only)
MnameNoFallback(m) == m.name
Mname(m) == IF TagTruthy(m.name) THEN m.name ELSE m.property

\* the loop over the elements, later elements overwriting earlier ones
RECURSIVE ScanMetas(_, _, _)
ScanMetas(metas, equivalences, data) ==
    IF metas = <<>> THEN data
    ELSE LET m == Head(metas)
             t == Mname(m)
         IN  ScanMetas(Tail(metas), equivalences,
                 IF TagTruthy(t) /\ Lower(t) \in DOMAIN equivalences
                 THEN DictSet(data, equivalences[Lower(t)], m.content)
                 ELSE data)

\* copy.copy(meta_equivalences) and update(extra_equivalences): the table of
\* this call, and the module-level table after it
\* (EffectiveTableAliased: the faulty variant that updates the module-level
\* table itself)
EffectiveTableAliased(table, extra) ==
    [equivalences |-> [k \in DOMAIN table \cup DOMAIN extra |->
                          IF k \in DOMAIN extra THEN extra[k] ELSE table[k]],
     global |-> [k \in DOMAIN table \cup DOMAIN extra |->
                          IF k \in DOMAIN extra THEN extra[k] ELSE table[k]]]
EffectiveTable(table, extra) ==
    [equivalences |-> DictUpdate(table, extra), global |-> table]

\* parse_meta_headers(soup, extra_equivalences) with the module-level table
\* as it is when the call is made
parse_meta_headers(soup, extra, table) ==
    LET e == EffectiveTable(table, extra)
        data == ScanMetas(soup, e.equivalences, EmptyDict)
        author_list == parse_meta_authors(soup)
    IN  IF author_list.err /= NoneVal
        THEN [err |-> author_list.err, data |-> EmptyDict, global |-> e.global]
        ELSE [err |-> NoneVal,
              data |-> IF author_list.list /= <<>>
                       THEN DictSet(DictSet(data, "author_list", author_list.list),
                                    "author",
                                    author_list_to_author(author_list.list))
                       ELSE data,
              global |-> e.global]

\* ------------------------------------------------------------------------
\* State
\* ------------------------------------------------------------------------
VARIABLES
    ctx,            \* self.ctx: [data, files], shared with the caller
    impl,           \* capabilities this downloader variant implements
    expected,       \* self.expected_document_extension
    bibtex_data,    \* self.bibtex_data
    document_data,  \* self.document_data
    pc,             \* position of fetch(): "idle", a stage, "done", "raised"
    err,            \* the error fetch() raised to its caller
    trace,          \* stages fetch() has gone through, with their outcome
    calls,          \* capability methods and requests issued by fetch()
    fetchCtx,       \* ctx as it was when fetch() was entered
    tmpfiles,       \* files on disk created by fetch(): path -> content
    direct,         \* the last call the caller made itself, and its result
    ndirect,        \* calls the caller made itself so far
    nfetch,         \* fetch() calls on the context so far
    meta            \* the metadata extractor: its table, input and results

vars == <<ctx, impl, expected, bibtex_data, document_data, pc, err, trace,
          calls, fetchCtx, tmpfiles, direct, ndirect, nfetch, meta>>

NoCheck == [called |-> FALSE, expected |-> [kind |-> "none", tags |-> <<>>],
            cache |-> NoneVal, log |-> <<>>, data |-> NoneVal,
            sniffed |-> FALSE, kind |-> NoneVal, result |-> NoneVal]

NoDirect == [op |-> NoneVal, before |-> NoneVal, err |-> NoneVal, log |-> <<>>,
             check |-> NoCheck]

\* no document has been handed to the metadata extractor
NoMeta == [table |-> meta_equivalences, soup |-> <<>>, extra |-> EmptyDict,
           op |-> NoneVal, err |-> NoneVal, headers |-> EmptyDict,
           authors |-> <<>>, n |-> 0, overrode |-> FALSE]

\* ------------------------------------------------------------------------
\* Downloads and caches
\* ------------------------------------------------------------------------
\* what one download attempt meets: no url, a failing request, undecodable
\* content, or content
Outcomes(contents) ==
    { [kind |-> k, val |-> NoneVal] : k \in {"nourl", "neterror", "decodeerror"} }
    \cup { [kind |-> "content", val |-> c] : c \in contents }

BibOutcomes == Outcomes(BibTexts)
DocOutcomes == Outcomes(DocBytes) \ {[kind |-> "decodeerror", val |-> NoneVal]}

\* the outcomes a second attempt can meet: it is made only when the first
\* one raised nothing and left the cache falsy
SecondOutcomes(r1, all) ==
    IF r1.err = NoneVal /\ ~Truthy(r1.cache) THEN all ELSE {[kind |-> "nourl", val |-> NoneVal]}

\* download_bibtex(): result cache, error raised, calls issued
download_bibtex(implemented, cache, o) ==
    IF ~implemented
    THEN [cache |-> cache, err |-> "NotImplementedError",
          log |-> <<"download_bibtex">>]
    ELSE CASE o.kind = "nourl" ->
                [cache |-> cache, err |-> NoneVal, log |-> <<"download_bibtex">>]
           [] o.kind = "neterror" ->
                [cache |-> cache, err |-> "RequestException",
                 log |-> <<"download_bibtex", "GET bibtex">>]
           [] o.kind = "decodeerror" ->
                [cache |-> cache, err |-> "UnicodeDecodeError",
                 log |-> <<"download_bibtex", "GET bibtex">>]
           [] OTHER ->
                [cache |-> o.val, err |-> NoneVal,
                 log |-> <<"download_bibtex", "GET bibtex">>]

\* get_bibtex_data(): downloads when the cache is falsy
\* (get_bibtex_data_uncached: the faulty variant that always downloads)
get_bibtex_data_uncached(implemented, cache, o) ==
    download_bibtex(implemented, cache, o)
get_bibtex_data(implemented, cache, o) ==
    IF ~Truthy(cache)
    THEN download_bibtex(implemented, cache, o)
    ELSE [cache |-> cache, err |-> NoneVal, log |-> <<>>]

\* download_document()
download_document(implemented, cache, o) ==
    IF ~implemented
    THEN [cache |-> cache, err |-> "NotImplementedError",
          log |-> <<"download_document">>]
    ELSE CASE o.kind = "nourl" ->
                [cache |-> cache, err |-> NoneVal, log |-> <<"download_document">>]
           [] o.kind = "neterror" ->
                [cache |-> cache, err |-> "RequestException",
                 log |-> <<"download_document", "GET document">>]
           [] OTHER ->
                [cache |-> o.val, err |-> NoneVal,
                 log |-> <<"download_document", "GET document">>]

\* get_document_data(): downloads when the cache is falsy
get_document_data(implemented, cache, o) ==
    IF ~Truthy(cache)
    THEN download_document(implemented, cache, o)
    ELSE [cache |-> cache, err |-> NoneVal, log |-> <<>>]

\* ------------------------------------------------------------------------
\* check_document_format()
\* ------------------------------------------------------------------------
\* the result is "True", "False" or the name of the error raised
\* (check_document_format_sniff_first: the faulty variant that fetches and
\* sniffs the data before it looks at the expectation)
check_document_format_sniff_first(exp, implemented, cache, o) ==
    LET g    == get_document_data(implemented, cache, o)
        kind == guess(g.cache)
        base == [called |-> TRUE, expected |-> exp, cache |-> g.cache,
                 log |-> g.log, data |-> g.cache, sniffed |-> TRUE,
                 kind |-> kind, result |-> "True"]
    IN  IF g.err /= NoneVal
        THEN [base EXCEPT !.result = g.err, !.sniffed = FALSE, !.kind = NoneVal]
        ELSE IF exp.kind = "none" THEN base
        ELSE IF kind = NoneVal THEN [base EXCEPT !.result = "False"]
        ELSE IF kind = exp.tags[1] THEN base
        ELSE [base EXCEPT !.result = "False"]
check_document_format(exp, implemented, cache, o) ==
    LET g    == get_document_data(implemented, cache, o)
        kind == guess(g.cache)
        base == [called |-> TRUE, expected |-> exp, cache |-> g.cache,
                 log |-> g.log, data |-> g.cache, sniffed |-> TRUE,
                 kind |-> kind, result |-> "True"]
    IN  IF exp.kind = "none"
        THEN [base EXCEPT !.cache = cache, !.log = <<>>, !.data = cache,
                          !.sniffed = FALSE, !.kind = NoneVal]
        ELSE IF g.err /= NoneVal
        THEN [base EXCEPT !.result = g.err, !.sniffed = FALSE, !.kind = NoneVal]
        ELSE IF g.cache = NoneVal
        \* filetype.guess(None)
        THEN [base EXCEPT !.result = "TypeError", !.sniffed = FALSE]
        ELSE IF kind = NoneVal
        THEN [base EXCEPT !.result = "False"]
        ELSE IF exp.kind = "list"
        \* expected_document_extensions is bound only in the non-list branch
        THEN [base EXCEPT !.result = "UnboundLocalError"]
        ELSE IF kind \in {exp.tags[1]}
        THEN base
        ELSE [base EXCEPT !.result = "False"]

\* ------------------------------------------------------------------------
\* The stages of fetch(), as functions of the state and of what they meet
\* ------------------------------------------------------------------------
\* stage 1: get_data() and the isinstance assertion
GetDataOutcomes ==
    { [kind |-> k, val |-> EmptyDict] : k \in {"error", "notdict"} }
    \cup { [kind |-> "dict", val |-> d] : d \in DataResults }

\* (GetDataStageAssertCaught: the faulty variant whose except clause also
\* takes the AssertionError)
GetDataStageAssertCaught(implemented, r) ==
    LET e == IF ~implemented THEN "NotImplementedError"
             ELSE CASE r.kind = "error"   -> "RequestException"
                    [] r.kind = "notdict" -> "AssertionError"
                    [] OTHER -> NoneVal
    IN  [err |-> e, caught |-> Caught(e) \/ e = "AssertionError",
         gave |-> IF e = NoneVal THEN r.val ELSE EmptyDict,
         log |-> <<"get_data">>, tries |-> <<>>]
GetDataStage(implemented, r) ==
    LET e == IF ~implemented THEN "NotImplementedError"
             ELSE CASE r.kind = "error"   -> "RequestException"
                    [] r.kind = "notdict" -> "AssertionError"
                    [] OTHER -> NoneVal
    IN  [err |-> e, caught |-> Caught(e),
         gave |-> IF e = NoneVal THEN r.val ELSE EmptyDict,
         log |-> <<"get_data">>, tries |-> <<>>]

\* stage 2: download_bibtex(), get_bibtex_data(), bibtex_to_dict()
BibtexStage(implemented, cache, o1, o2) ==
    LET r1 == download_bibtex(implemented, cache, o1)
        r2 == get_bibtex_data(implemented, r1.cache, o2)
        p  == bibtex_to_dict(r2.cache)
        t2 == <<r1.cache>> \o (IF r2.log = <<>> THEN <<>> ELSE <<r2.cache>>)
    IN  IF r1.err /= NoneVal
        THEN [err |-> r1.err, caught |-> Caught(r1.err), cache |-> r1.cache,
              gave |-> EmptyDict, log |-> r1.log, tries |-> <<r1.cache>>]
        ELSE IF r2.err /= NoneVal
        THEN [err |-> r2.err, caught |-> FALSE, cache |-> r2.cache,
              gave |-> EmptyDict, log |-> r1.log \o r2.log, tries |-> t2]
        ELSE IF ~Truthy(r2.cache)
        THEN [err |-> NoneVal, caught |-> FALSE, cache |-> r2.cache,
              gave |-> EmptyDict, log |-> r1.log \o r2.log, tries |-> t2]
        ELSE IF p.err /= NoneVal
        THEN [err |-> p.err, caught |-> FALSE, cache |-> r2.cache,
              gave |-> EmptyDict, log |-> r1.log \o r2.log, tries |-> t2]
        ELSE [err |-> NoneVal, caught |-> FALSE, cache |-> r2.cache,
              gave |-> IF p.list /= <<>> THEN p.list[1] ELSE EmptyDict,
              log |-> r1.log \o r2.log, tries |-> t2]

\* stage 3: get_doi()
GetDoiOutcomes ==
    { [kind |-> "error", val |-> NoneVal] }
    \cup { [kind |-> "value", val |-> v] : v \in DoiResults }

GetDoiStage(implemented, r) ==
    LET e == IF ~implemented THEN "NotImplementedError"
             ELSE IF r.kind = "error" THEN "RequestException" ELSE NoneVal
    IN  [err |-> e, caught |-> Caught(e), val |-> r.val, log |-> <<"get_doi">>,
         tries |-> <<>>]

\* stage 4: download_document(), get_document_data(), the format check,
\* tempfile.mktemp(), open(), write() and ctx.files.append()
WriteOutcomes == {"ok", "openerror", "writeerror"}

\* open() and write() are reached only after a passed format check
\* mktemp(), open(), write(), then ctx.files.append(): what ends up on disk,
\* whether the path is appended, the error raised
\* (SaveDocumentAppendFirst: the faulty variant that appends the path before
\* the file is written)
\* (SaveDocumentNoAppend: the faulty variant that never appends the path)
SaveDocumentNoAppend(bytes, w) ==
    CASE w = "openerror"  -> [err |-> "OSError", created |-> <<>>, append |-> FALSE]
      [] w = "writeerror" -> [err |-> "OSError", created |-> <<"partial">>,
                              append |-> FALSE]
      [] OTHER            -> [err |-> NoneVal, created |-> <<bytes>>, append |-> FALSE]
SaveDocumentAppendFirst(bytes, w) ==
    CASE w = "openerror"  -> [err |-> "OSError", created |-> <<>>, append |-> TRUE]
      [] w = "writeerror" -> [err |-> "OSError", created |-> <<"partial">>,
                              append |-> TRUE]
      [] OTHER            -> [err |-> NoneVal, created |-> <<bytes>>, append |-> TRUE]
SaveDocument(bytes, w) ==
    CASE w = "openerror"  -> [err |-> "OSError", created |-> <<>>, append |-> FALSE]
      [] w = "writeerror" -> [err |-> "OSError", created |-> <<"partial">>,
                              append |-> FALSE]
      [] OTHER            -> [err |-> NoneVal, created |-> <<bytes>>, append |-> TRUE]

DocumentStage(exp, implemented, cache, o1, o2, w) ==
    LET r1 == download_document(implemented, cache, o1)
        r2 == get_document_data(implemented, r1.cache, o2)
        c  == check_document_format(exp, implemented, r2.cache, o2)
        passed == r1.err = NoneVal /\ r2.err = NoneVal /\ Truthy(r2.cache)
                  /\ c.result = "True"
        none == [err |-> NoneVal, caught |-> FALSE, cache |-> r2.cache,
                 log |-> r1.log \o r2.log, check |-> NoCheck,
                 created |-> <<>>, append |-> FALSE, saving |-> passed,
                 tries |-> <<r1.cache>>
                           \o (IF r2.log = <<>> THEN <<>> ELSE <<r2.cache>>)]
    IN  IF r1.err /= NoneVal
        THEN [none EXCEPT !.err = r1.err, !.caught = Caught(r1.err),
                          !.cache = r1.cache, !.log = r1.log,
                          !.tries = <<r1.cache>>]
        ELSE IF r2.err /= NoneVal
        THEN [none EXCEPT !.err = r2.err]
        ELSE IF ~Truthy(r2.cache)
        THEN none
        ELSE IF c.result = "False"
        THEN [none EXCEPT !.check = c, !.cache = c.cache,
                          !.log = r1.log \o r2.log \o c.log]
        ELSE IF c.result /= "True"
        THEN [none EXCEPT !.check = c, !.err = c.result, !.cache = c.cache,
                          !.log = r1.log \o r2.log \o c.log]
        ELSE LET f == SaveDocument(r2.cache, w)
             IN  [none EXCEPT !.check = c, !.err = f.err,
                              !.created = f.created, !.append = f.append]

\* open() and write() are reached only after a passed format check
WritesMet(s) == IF s.saving THEN WriteOutcomes ELSE {"ok"}

\* ------------------------------------------------------------------------
\* fetch()
\* ------------------------------------------------------------------------
\* (NextPcDoiFirst: the faulty variant with the doi stage before the bibtex
\* stage)
NextPcDoiFirst(stage) ==
    CASE stage = "get_data" -> "doi"
      [] stage = "doi"      -> "bibtex"
      [] stage = "bibtex"   -> "document"
      [] OTHER              -> "done"
\* the statement that follows a stage in the body of fetch()
NextPc(stage) ==
    CASE stage = "get_data" -> "bibtex"
      [] stage = "bibtex"   -> "doi"
      [] stage = "doi"      -> "document"
      [] OTHER              -> "done"

\* a stage ends: its except clause, or the error leaves fetch()
EndStage(stage, before, e, caught, gave, check, tries) ==
    LET status == IF e = NoneVal THEN "completed"
                  ELSE IF caught THEN "skipped" ELSE "raised"
    IN  /\ trace' = Append(before, [stage |-> stage, status |-> status,
                                    error |-> e, gave |-> gave,
                                    check |-> check, tries |-> tries])
        /\ pc'  = IF status = "raised" THEN "raised" ELSE NextPc(stage)
        /\ err' = IF status = "raised" THEN e ELSE NoneVal

\* fetch() is entered and runs its first try statement
EnterFetch ==
    /\ nfetch' = nfetch + 1
    /\ fetchCtx' = ctx
    /\ \E r \in GetDataOutcomes :
         LET s == GetDataStage("get_data" \in impl, r)
         IN  /\ ctx' = IF s.err = NoneVal
                       THEN [ctx EXCEPT !.data = DictUpdate(@, s.gave)]
                       ELSE ctx
             /\ calls' = s.log
             /\ EndStage("get_data", <<>>, s.err, s.caught, s.gave, NoCheck,
                         s.tries)
    /\ UNCHANGED <<impl, expected, bibtex_data, document_data, tmpfiles,
                   direct, ndirect, meta>>

\* the first fetch() of a downloader
StageGetData ==
    /\ pc = "idle"
    /\ EnterFetch

StageBibtex ==
    /\ pc = "bibtex"
    /\ \E o1 \in BibOutcomes :
       \E o2 \in SecondOutcomes(download_bibtex("bibtex" \in impl, bibtex_data, o1),
                                BibOutcomes) :
         LET s == BibtexStage("bibtex" \in impl, bibtex_data, o1, o2)
         IN  /\ bibtex_data' = s.cache
             /\ ctx' = IF s.err = NoneVal
                       THEN [ctx EXCEPT !.data = DictUpdate(@, s.gave)]
                       ELSE ctx
             /\ calls' = calls \o s.log
             /\ EndStage("bibtex", trace, s.err, s.caught, s.gave, NoCheck,
                         s.tries)
    /\ UNCHANGED <<impl, expected, document_data, fetchCtx, tmpfiles,
                   direct, ndirect, nfetch, meta>>

StageDoi ==
    /\ pc = "doi"
    /\ \E r \in GetDoiOutcomes :
         LET s == GetDoiStage("doi" \in impl, r)
         IN  /\ ctx' = IF s.err = NoneVal
                       THEN [ctx EXCEPT !.data = DictSet(@, "doi", s.val)]
                       ELSE ctx
             /\ calls' = calls \o s.log
             /\ EndStage("doi", trace, s.err, s.caught,
                         IF s.err = NoneVal THEN ("doi" :> s.val) ELSE EmptyDict,
                         NoCheck, s.tries)
    /\ UNCHANGED <<impl, expected, bibtex_data, document_data, fetchCtx,
                   tmpfiles, direct, ndirect, nfetch, meta>>

StageDocument ==
    /\ pc = "document"
    /\ \E o1 \in DocOutcomes :
       \E o2 \in SecondOutcomes(download_document("document" \in impl,
                                                  document_data, o1),
                                DocOutcomes) :
       \E w \in WritesMet(DocumentStage(expected, "document" \in impl,
                                        document_data, o1, o2, "ok")) :
         LET s == DocumentStage(expected, "document" \in impl, document_data,
                                o1, o2, w)
         IN  /\ document_data' = s.cache
             /\ tmpfiles' = tmpfiles \o s.created
             /\ ctx' = IF s.append
                       THEN [ctx EXCEPT !.files = Append(@, Len(tmpfiles) + 1)]
                       ELSE ctx
             /\ calls' = calls \o s.log
             /\ EndStage("document", trace, s.err, s.caught, EmptyDict, s.check,
                         s.tries)
    /\ UNCHANGED <<impl, expected, bibtex_data, fetchCtx, direct, ndirect,
                   nfetch, meta>>

\* ------------------------------------------------------------------------
\* Construction and the caller's own calls
\* ------------------------------------------------------------------------
\* Downloader.__init__ on the caller's context, then the variant's settings
Init ==
    /\ ctx \in InitialContexts
    /\ impl \in SUBSET Capabilities
    /\ expected \in Expectations
    /\ bibtex_data = NoneVal
    /\ document_data = NoneVal
    /\ pc = "idle"
    /\ err = NoneVal
    /\ trace = <<>>
    /\ calls = <<>>
    /\ fetchCtx = ctx
    /\ tmpfiles = <<>>
    /\ direct = NoDirect
    /\ ndirect = 0
    /\ nfetch = 0
    /\ meta = NoMeta

\* no fetch() is running
Idle == pc \in {"idle", "done", "raised"}

\* the caller calls check_document_format() itself
DirectCheck ==
    /\ Idle
    /\ ndirect < MaxDirectCalls
    /\ ndirect' = ndirect + 1
    /\ \E o \in DocOutcomes :
         LET c == check_document_format(expected, "document" \in impl,
                                        document_data, o)
         IN  /\ document_data' = c.cache
             /\ direct' = [op |-> "check_document_format",
                           before |-> document_data,
                           err |-> IF c.result \in {"True", "False"}
                                   THEN NoneVal ELSE c.result,
                           log |-> c.log, check |-> c]
    /\ UNCHANGED <<ctx, impl, expected, bibtex_data, pc, err, trace, calls,
                   fetchCtx, tmpfiles, nfetch, meta>>

\* the caller calls get_bibtex_data() itself
DirectGetBibtex ==
    /\ Idle
    /\ ndirect < MaxDirectCalls
    /\ ndirect' = ndirect + 1
    /\ \E o \in BibOutcomes :
         LET r == get_bibtex_data("bibtex" \in impl, bibtex_data, o)
         IN  /\ bibtex_data' = r.cache
             /\ direct' = [op |-> "get_bibtex_data", before |-> bibtex_data,
                           err |-> r.err, log |-> r.log, check |-> NoCheck]
    /\ UNCHANGED <<ctx, impl, expected, document_data, pc, err, trace, calls,
                   fetchCtx, tmpfiles, nfetch, meta>>

\* the caller calls get_document_data() itself
DirectGetDocument ==
    /\ Idle
    /\ ndirect < MaxDirectCalls
    /\ ndirect' = ndirect + 1
    /\ \E o \in DocOutcomes :
         LET r == get_document_data("document" \in impl, document_data, o)
         IN  /\ document_data' = r.cache
             /\ direct' = [op |-> "get_document_data", before |-> document_data,
                           err |-> r.err, log |-> r.log, check |-> NoCheck]
    /\ UNCHANGED <<ctx, impl, expected, bibtex_data, pc, err, trace, calls,
                   fetchCtx, tmpfiles, nfetch, meta>>

Next ==
    \/ StageGetData
    \/ StageBibtex
    \/ StageDoi
    \/ StageDocument
    \/ DirectCheck
    \/ DirectGetBibtex
    \/ DirectGetDocument

Spec == Init /\ [][Next]_vars

\* ------------------------------------------------------------------------
\* Several fetch() calls, by one or several downloaders, on one context
\* ------------------------------------------------------------------------
\* the downloaders that share the context: what each implements and expects
SharedVariants ==
    { [impl |-> Capabilities, expected |-> [kind |-> "tag", tags |-> <<"pdf">>]],
      [impl |-> {"get_data", "doi"}, expected |-> [kind |-> "none", tags |-> <<>>]],
      [impl |-> {"bibtex", "document"},
       expected |-> [kind |-> "none", tags |-> <<>>]] }

\* a further fetch() on the same downloader, its caches as they are
FetchAgain ==
    /\ pc \in {"done", "raised"}
    /\ nfetch < MaxFetches
    /\ EnterFetch

\* the caller constructs another downloader with the same context
NewDownloader ==
    /\ pc \in {"done", "raised"}
    /\ nfetch < MaxFetches
    /\ \E v \in SharedVariants : impl' = v.impl /\ expected' = v.expected
    /\ bibtex_data' = NoneVal
    /\ document_data' = NoneVal
    /\ pc' = "idle"
    /\ err' = NoneVal
    /\ trace' = <<>>
    /\ calls' = <<>>
    /\ fetchCtx' = ctx
    /\ UNCHANGED <<ctx, tmpfiles, direct, ndirect, nfetch, meta>>

NextShared ==
    \/ StageGetData
    \/ StageBibtex
    \/ StageDoi
    \/ StageDocument
    \/ FetchAgain
    \/ NewDownloader

InitShared ==
    /\ Init
    /\ \E v \in SharedVariants : impl = v.impl /\ expected = v.expected

SpecShared == InitShared /\ [][NextShared]_vars

\* ------------------------------------------------------------------------
\* Calls of the metadata extractor on one parsed document
\* ------------------------------------------------------------------------
\* meta: the module-level table, the document, and the last call: its
\* extra_equivalences, what it returned or raised; n counts the calls and
\* overrode tells that some call so far passed a key of the built-in table.
InitMeta ==
    /\ ctx = [data |-> EmptyDict, files |-> <<>>]
    /\ impl = {}
    /\ expected = [kind |-> "none", tags |-> <<>>]
    /\ bibtex_data = NoneVal
    /\ document_data = NoneVal
    /\ pc = "idle"
    /\ err = NoneVal
    /\ trace = <<>>
    /\ calls = <<>>
    /\ fetchCtx = ctx
    /\ tmpfiles = <<>>
    /\ direct = NoDirect
    /\ ndirect = 0
    /\ nfetch = 0
    /\ \E soup \in Soups : meta = [NoMeta EXCEPT !.soup = soup]

ParseMetaHeaders ==
    /\ meta.n < MaxParses
    /\ \E extra \in ExtraChoices :
         LET r == parse_meta_headers(meta.soup, extra, meta.table)
         IN  meta' = [meta EXCEPT !.table = r.global,
                                  !.extra = extra,
                                  !.op = "parse_meta_headers",
                                  !.err = r.err,
                                  !.headers = r.data,
                                  !.authors = <<>>,
                                  !.n = @ + 1,
                                  !.overrode = @ \/ (DOMAIN extra \cap
                                      DOMAIN meta_equivalences /= {})]
    /\ UNCHANGED <<ctx, impl, expected, bibtex_data, document_data, pc, err,
                   trace, calls, fetchCtx, tmpfiles, direct, ndirect, nfetch>>

ParseMetaAuthors ==
    /\ meta.n < MaxParses
    /\ LET r == parse_meta_authors(meta.soup)
       IN  meta' = [meta EXCEPT !.extra = EmptyDict,
                                !.op = "parse_meta_authors",
                                !.err = r.err,
                                !.headers = EmptyDict,
                                !.authors = r.list,
                                !.n = @ + 1]
    /\ UNCHANGED <<ctx, impl, expected, bibtex_data, document_data, pc, err,
                   trace, calls, fetchCtx, tmpfiles, direct, ndirect, nfetch>>

NextMeta ==
    \/ ParseMetaHeaders
    \/ ParseMetaAuthors

SpecMeta == InitMeta /\ [][NextMeta]_vars

\* ------------------------------------------------------------------------
\* Properties of fetch()
\* ------------------------------------------------------------------------
\* the stage a logged call belongs to
StageOfCall(c) ==
    CASE c = "get_data" -> 1
      [] c \in {"download_bibtex", "GET bibtex"} -> 2
      [] c = "get_doi" -> 3
      [] OTHER -> 4

AllImplemented == impl = Capabilities

\* C1: the stages of a fetch() are started in the order get_data, bibtex,
\* doi, document, each at most once, a stage only after every earlier one
\* completed or was skipped, and no capability method of a stage is called
\* before that stage or after a later one.
C1_StageOrder ==
    /\ Len(trace) <= Len(Stages)
    /\ \A i \in 1..Len(trace) : trace[i].stage = Stages[i]
    /\ \A i \in 1..(Len(trace) - 1) : trace[i].status \in {"completed", "skipped"}
    /\ \A i \in 1..Len(calls) : StageOfCall(calls[i]) <= Len(trace)
    /\ \A i, j \in 1..Len(calls) :
         i < j => StageOfCall(calls[i]) <= StageOfCall(calls[j])
    /\ \A n \in 1..Len(trace) : \E i \in 1..Len(calls) : StageOfCall(calls[i]) = n
    /\ pc \in SeqToSet(Stages) => pc = Stages[Len(trace) + 1]

C1_Witness ==
    /\ pc = "done"
    /\ AllImplemented
    /\ \A i \in 1..4 : trace[i].status = "completed"
    /\ calls = <<"get_data", "download_bibtex", "GET bibtex", "get_doi",
                 "download_document", "GET document">>

\* a value of ctx.data comes from the caller's context or from a stage that
\* the downloader implements and that completed
Attributable(k) ==
    \/ k \in DOMAIN fetchCtx.data /\ fetchCtx.data[k] = ctx.data[k]
    \/ \E i \in 1..Len(trace) :
         /\ trace[i].stage \in impl
         /\ trace[i].status = "completed"
         /\ k \in DOMAIN trace[i].gave
         /\ trace[i].gave[k] = ctx.data[k]

\* C2: whatever subset of the capabilities is unimplemented, fetch() skips
\* exactly the stages of that subset, runs the others, takes nothing into the
\* context from a skipped stage, and NotImplementedError never reaches the
\* caller: fetch() returns unless an implemented stage fails itself.
C2_SkipUnimplemented ==
    /\ err /= "NotImplementedError"
    /\ \A i \in 1..Len(trace) :
         /\ (trace[i].status = "skipped") <=> (trace[i].stage \notin impl)
         /\ trace[i].status = "skipped" =>
              trace[i].gave = EmptyDict /\ ~trace[i].check.called
    /\ pc = "raised" => trace[Len(trace)].stage \in impl
    /\ pc = "done" => Len(trace) = 4
    /\ \A k \in DOMAIN fetchCtx.data : k \in DOMAIN ctx.data
    /\ \A k \in DOMAIN ctx.data : Attributable(k)
    /\ "document" \notin impl => ctx.files = fetchCtx.files /\ tmpfiles = <<>>
    /\ "bibtex" \notin impl => bibtex_data = NoneVal
    /\ impl = {} => ctx = fetchCtx

C2_Witness ==
    /\ pc = "done"
    /\ impl = {"get_data", "doi"}
    /\ trace[1].status = "completed" /\ trace[2].status = "skipped"
    /\ trace[3].status = "completed" /\ trace[4].status = "skipped"
    /\ ctx.data /= fetchCtx.data

\* C3: from an empty context, fetch() of a downloader that implements only
\* get_doi ends with data = {"doi": v}, v the value get_doi returned, and no
\* files.
C3_OnlyDoi ==
    (/\ pc = "done"
     /\ impl = {"doi"}
     /\ fetchCtx = [data |-> EmptyDict, files |-> <<>>])
    => /\ DOMAIN ctx.data = {"doi"}
       /\ ctx.data["doi"] = trace[3].gave["doi"]
       /\ ctx.files = <<>>

C3_Witness ==
    /\ pc = "done"
    /\ impl = {"doi"}
    /\ fetchCtx = [data |-> EmptyDict, files |-> <<>>]
    /\ ctx.data = ("doi" :> "")

\* C4: when the get_data stage and the first bibtex entry both supply a
\* field, the bibtex value is in ctx.data after fetch() (for "doi" only when
\* get_doi is not implemented), and a field only one of them supplies is
\* there with that stage's value.
C4_BibtexWins ==
    (/\ pc = "done"
     /\ trace[1].status = "completed"
     /\ trace[2].status = "completed")
    => LET gd == trace[1].gave
           gb == trace[2].gave
       IN  \A k \in DOMAIN gd \cup DOMAIN gb :
             (k /= "doi" \/ "doi" \notin impl) =>
               /\ k \in DOMAIN ctx.data
               /\ ctx.data[k] = IF k \in DOMAIN gb THEN gb[k] ELSE gd[k]

C4_Witness ==
    /\ pc = "done"
    /\ "doi" \notin impl
    /\ trace[1].status = "completed"
    /\ trace[2].status = "completed"
    /\ trace[2].gave = bibtex_to_dict("bib_two").list[1]
    /\ DOMAIN trace[1].gave \cap DOMAIN trace[2].gave = {"doi", "title"}
    /\ ctx.data["title"] = "t_bib" /\ ctx.data["doi"] = "d_bib"
    /\ ctx.data["year"] = "y_data" /\ ctx.data["journal"] = "j_bib"

\* C5: when get_doi is implemented and fetch() returns, ctx.data["doi"] is
\* the value get_doi returned, whatever the caller's context, get_data and
\* the bibtex entry had put there, and also when the value is "" or None.
C5_DoiLast ==
    (pc = "done" /\ "doi" \in impl)
    => /\ "doi" \in DOMAIN ctx.data
       /\ ctx.data["doi"] = trace[3].gave["doi"]

C5_Witness ==
    /\ pc = "done"
    /\ AllImplemented
    /\ "doi" \in DOMAIN fetchCtx.data
    /\ "doi" \in DOMAIN trace[1].gave
    /\ "doi" \in DOMAIN trace[2].gave
    /\ trace[3].gave["doi"] = NoneVal
    /\ ctx.data["doi"] = NoneVal

\* C6: a stage that fails with an error other than NotImplementedError ends
\* fetch(): the error is the one the caller gets, the stage is the last one
\* started, and no capability method of a later stage has been called.
C6_ErrorsPropagate ==
    \A i \in 1..Len(trace) :
        trace[i].error \notin {NoneVal, "NotImplementedError"} =>
            /\ pc = "raised"
            /\ err = trace[i].error
            /\ i = Len(trace)
            /\ \A j \in 1..Len(calls) : StageOfCall(calls[j]) <= i

C6_Witness ==
    /\ pc = "raised"
    /\ AllImplemented
    /\ Len(trace) = 2
    /\ err = "BibtexParseError"
    /\ calls = <<"get_data", "download_bibtex", "GET bibtex">>

\* the value the stages before the failing one left for field k
LastGave(k) ==
    LET n == CHOOSE i \in 1..(Len(trace) - 1) :
                 /\ k \in DOMAIN trace[i].gave
                 /\ \A j \in (i + 1)..(Len(trace) - 1) : k \notin DOMAIN trace[j].gave
    IN  trace[n].gave[k]

\* C7: the step in which fetch() aborts changes nothing in the context, and
\* the context stays as it is afterwards: every field the earlier stages
\* merged is there with the value they left, the caller's fields are there,
\* and no path has been added.
C7_NoRollback ==
    /\ [](pc = "raised" =>
            /\ trace[Len(trace)].gave = EmptyDict
            /\ ctx.files = fetchCtx.files
            /\ \A k \in DOMAIN fetchCtx.data : k \in DOMAIN ctx.data
            /\ \A i \in 1..(Len(trace) - 1) : \A k \in DOMAIN trace[i].gave :
                 k \in DOMAIN ctx.data /\ ctx.data[k] = LastGave(k))
    /\ [][pc' = "raised" => ctx' = ctx]_vars

C7_Witness ==
    /\ pc = "raised"
    /\ Len(trace) = 4
    /\ err = "OSError"
    /\ trace[1].status = "completed" /\ trace[2].status = "completed"
    /\ fetchCtx.data = EmptyDict
    /\ ctx.data = ("doi" :> "d_bib") @@ ("title" :> "t_bib")
                  @@ ("journal" :> "j_bib") @@ ("year" :> "y_data")

\* ------------------------------------------------------------------------
\* Properties of check_document_format()
\* ------------------------------------------------------------------------
\* the format checks made so far, by fetch() or by the caller
Checks ==
    { c \in {direct.check} \cup {trace[i].check : i \in 1..Len(trace)} : c.called }

\* the sniffed type is one of the acceptable tags
Acceptable(c) == c.kind \in SeqToSet(c.expected.tags)

\* C8: when the document stage has non-empty bytes whose sniffed type is not
\* acceptable, fetch() returns without raising, ctx.files is as before the
\* stage and no temporary file exists.
C8_MismatchIsSilent ==
    \A i \in 1..Len(trace) :
        (/\ trace[i].stage = "document"
         /\ trace[i].check.called
         /\ Truthy(trace[i].check.data)
         /\ trace[i].check.expected.kind /= "none"
         /\ ~Acceptable(trace[i].check))
        => /\ pc = "done"
           /\ err = NoneVal
           /\ ctx.files = fetchCtx.files
           /\ tmpfiles = <<>>

\* C9: with one tag or a list of tags configured, check_document_format()
\* returns a boolean for every sniffed type, and True exactly when the
\* sniffed tag is among the acceptable tags.
C9_MembershipDecides ==
    \A c \in Checks :
        (c.expected.kind \in {"tag", "list"} /\ c.sniffed)
        => /\ c.result \in {"True", "False"}
           /\ (c.result = "True") <=> Acceptable(c)

\* C10: with no expected_document_extension, check_document_format() returns
\* True whatever document_data holds, downloads nothing, sniffs nothing and
\* leaves document_data alone.
C10_NoExpectationPasses ==
    /\ \A c \in Checks :
         c.expected.kind = "none" =>
            c.result = "True" /\ c.log = <<>> /\ ~c.sniffed
    /\ (direct.op = "check_document_format" /\ direct.check.expected.kind = "none")
       => direct.check.cache = direct.before /\ direct.err = NoneVal

C10_Witness ==
    /\ direct.op = "check_document_format"
    /\ expected.kind = "none"
    /\ "document" \in impl
    /\ direct.before = NoneVal
    /\ direct.check.result = "True"
    /\ document_data = NoneVal

\* ------------------------------------------------------------------------
\* Properties of the caches and of the document stage
\* ------------------------------------------------------------------------
\* occurrences of x in the sequence q
Count(q, x) == Cardinality({i \in 1..Len(q) : q[i] = x})

\* C11: once bibtex_data (document_data) holds data, no later call on the
\* instance issues a request for it again, and the value stays.
C11_CacheReused ==
    [][/\ Truthy(bibtex_data) =>
            /\ Count(calls', "GET bibtex") <= Count(calls, "GET bibtex")
            /\ direct' /= direct => Count(direct'.log, "GET bibtex") = 0
            /\ bibtex_data' = bibtex_data
       /\ Truthy(document_data) =>
            /\ Count(calls', "GET document") <= Count(calls, "GET document")
            /\ direct' /= direct => Count(direct'.log, "GET document") = 0
            /\ document_data' = document_data]_vars

\* the bytes get_document_data() returned to the document stage
DocRawdata == LET t == trace[4].tries IN t[Len(t)]

\* C16: when the document stage has non-empty bytes and the format check
\* passes, fetch() writes exactly those bytes to one new temporary file and
\* appends that file's path, and nothing else, at the end of ctx.files; the
\* bytes are the ones the format check looked at.
C16_DocumentSaved ==
    (/\ pc = "done"
     /\ trace[4].check.called
     /\ trace[4].check.result = "True")
    => /\ Truthy(DocRawdata)
       /\ tmpfiles = <<DocRawdata>>
       /\ ctx.files = Append(fetchCtx.files, Len(tmpfiles))
       /\ Len(tmpfiles) \notin SeqToSet(fetchCtx.files)
       /\ trace[4].check.data = DocRawdata
       /\ trace[4].check.sniffed => guess(DocRawdata) = trace[4].check.kind

C16_Witness ==
    /\ pc = "done"
    /\ expected.kind = "tag"
    /\ trace[4].check.result = "True"
    /\ trace[4].check.sniffed
    /\ trace[4].tries = <<"", "bytes_pdf">>
    /\ tmpfiles = <<"bytes_pdf">>
    /\ ctx.files = <<0, 1>>

\* C17: when get_data() returns something that is not a dict, fetch() raises,
\* the context is as it was when fetch() was entered, and download_bibtex,
\* get_doi and download_document are not called.
C17_NonMappingRejected ==
    (Len(trace) >= 1 /\ trace[1].error = "AssertionError")
    => /\ pc = "raised"
       /\ err = "AssertionError"
       /\ Len(trace) = 1
       /\ ctx = fetchCtx
       /\ calls = <<"get_data">>

C17_Witness ==
    /\ pc = "raised"
    /\ err = "AssertionError"
    /\ AllImplemented
    /\ ctx.data /= EmptyDict
    /\ calls = <<"get_data">>

\* the download method of a stage
DownloadOf(stage) ==
    IF stage = "bibtex" THEN "download_bibtex" ELSE "download_document"
RequestOf(stage) ==
    IF stage = "bibtex" THEN "GET bibtex" ELSE "GET document"

\* C19: in one fetch() the bibtex text and the document bytes are each
\* downloaded at most twice, and once only when the first attempt left
\* non-empty data; the second attempt is made only on a cache that is still
\* None or empty.
C19_BoundedDownloads ==
    \A i \in 1..Len(trace) :
        trace[i].stage \in {"bibtex", "document"} =>
            LET n == Count(calls, DownloadOf(trace[i].stage))
                t == trace[i].tries
            IN  /\ n \in {1, 2}
                /\ Len(t) = n
                /\ Count(calls, RequestOf(trace[i].stage)) <= n
                /\ Truthy(t[1]) => n = 1
                /\ n = 2 => ~Truthy(t[1])

C19_Witness ==
    /\ pc = "done"
    /\ ndirect = 0
    /\ trace[2].tries = <<"", "bib_two">>
    /\ trace[4].tries = <<"bytes_pdf">>
    /\ Count(calls, "GET bibtex") = 2
    /\ Count(calls, "GET document") = 1

\* C20: over any sequence of fetch() calls on one context, by the same or by
\* different downloaders, returning or aborting, no key leaves ctx.data, the
\* paths already in ctx.files keep their position and value, and one fetch()
\* appends at most one path.
C20_ContextOnlyGrows ==
    [][/\ DOMAIN ctx.data \subseteq DOMAIN ctx'.data
       /\ Len(ctx'.files) >= Len(ctx.files)
       /\ \A i \in 1..Len(ctx.files) : ctx'.files[i] = ctx.files[i]
       /\ Len(ctx'.files) <= Len(fetchCtx'.files) + 1]_vars

C20_Witness ==
    /\ nfetch = 2
    /\ pc = "raised"
    /\ ctx.files = <<0, 1>>
    /\ fetchCtx.files = <<0, 1>>
    /\ ctx.data /= fetchCtx.data
    /\ "note" \in DOMAIN ctx.data

\* ------------------------------------------------------------------------
\* Properties of the metadata extractor
\* ------------------------------------------------------------------------
\* the table of the last call, from the built-in table as the source
\* text has it
Effective == DictUpdate(meta_equivalences, meta.extra)

\* parse_meta_headers() was called last and returned
HeadersReturned == meta.op = "parse_meta_headers" /\ meta.err = NoneVal

\* the element carries the tag of table key k, in any letter case, as its
\* name or as its property attribute
Carries(m, k) ==
    \/ m.name /= NoTag /\ m.name[1] = k[1]
    \/ m.property /= NoTag /\ m.property[1] = k[1]

ReadTag(m) == IF m.name /= NoTag /\ m.name[1] /= "" THEN m.name ELSE m.property

\* the element is read under a key of the table
Mapped(m) ==
    /\ ReadTag(m) /= NoTag
    /\ ReadTag(m)[1] /= ""
    /\ Lower(ReadTag(m)) \in DOMAIN Effective

FieldOf(m) == Effective[Lower(ReadTag(m))]

\* the document has citation_author elements, whose records take the fields
\* author and author_list
AuthorFields ==
    IF \E i \in 1..Len(meta.soup) : meta.soup[i].name = Tag("citation_author")
    THEN {"author", "author_list"} ELSE {}

C13_BuiltinTableKept ==
    /\ meta.table = meta_equivalences
    /\ HeadersReturned =>
        /\ \A i \in 1..Len(meta.soup) :
            (/\ Mapped(meta.soup[i])
             /\ Lower(ReadTag(meta.soup[i])) \in DOMAIN meta.extra
             /\ meta.extra[Lower(ReadTag(meta.soup[i]))] \notin AuthorFields
             /\ ~\E j \in (i+1)..Len(meta.soup) :
                    Mapped(meta.soup[j]) /\ FieldOf(meta.soup[j]) = FieldOf(meta.soup[i]))
            => /\ FieldOf(meta.soup[i]) = meta.extra[Lower(ReadTag(meta.soup[i]))]
               /\ meta.headers[FieldOf(meta.soup[i])] = meta.soup[i].content
        /\ \A f \in DOMAIN meta.headers \ AuthorFields :
              \E i \in 1..Len(meta.soup) :
                  Mapped(meta.soup[i]) /\ FieldOf(meta.soup[i]) = f
        /\ meta.extra = EmptyDict =>
              \A f \in DOMAIN meta.headers \ AuthorFields :
                  \E k \in DOMAIN meta_equivalences : meta_equivalences[k] = f

C13_Witness ==
    /\ HeadersReturned
    /\ meta.n = 2
    /\ meta.overrode
    /\ meta.extra = EmptyDict
    /\ \E i \in 1..Len(meta.soup) :
           meta.soup[i].name = MixedCase("citation_doi")
    /\ meta.headers["doi"] = <<"b">>
    /\ "identifier" \notin DOMAIN meta.headers

\* parse_meta_authors() was called last and returned
AuthorsReturned == meta.op = "parse_meta_authors" /\ meta.err = NoneVal

\* the citation_author and citation_author_institution elements, in
\* document order
AuthorElements ==
    SelectSeq(meta.soup, LAMBDA m : m.name = Tag("citation_author"))
InstitutionElements ==
    SelectSeq(meta.soup, LAMBDA m : m.name = Tag("citation_author_institution"))

\* the characters of a text that are not whitespace
NonSpace(text) == SelectSeq(text, LAMBDA c : c \notin {" ", "\t"})

\* C14: with a authors and f affiliations, parse_meta_authors() returns
\* min(a, f) records when both are non-zero, record i made of author i and of
\* affiliation i alone; a records without affiliation when f = 0; no record
\* when a = 0.
C14_PositionalPairing ==
    AuthorsReturned =>
        LET a == Len(AuthorElements)
            f == Len(InstitutionElements)
        IN  /\ Len(meta.authors) =
                  IF a = 0 THEN 0
                  ELSE IF f = 0 THEN a
                  ELSE IF a <= f THEN a ELSE f
            /\ \A i \in 1..Len(meta.authors) :
                /\ NonSpace(meta.authors[i].given \o meta.authors[i].family)
                       = NonSpace(AuthorElements[i].content)
                /\ meta.authors[i].affiliation =
                       IF f = 0 THEN <<>>
                       ELSE <<[name |-> InstitutionElements[i].content]>>

C14_Witness ==
    /\ AuthorsReturned
    /\ Len(AuthorElements) = 2
    /\ Len(InstitutionElements) = 2
    /\ Len(meta.authors) = 2
    /\ meta.authors[1].given = <<"J">>
    /\ meta.authors[1].affiliation = <<[name |-> NoneText]>>
    /\ meta.authors[2].given = <<>>
    /\ meta.authors[2].affiliation = <<[name |-> <<"a">>]>>

\* the maximal runs of characters that are not whitespace
RECURSIVE Words(_)
Words(s) ==
    IF s = <<>> THEN <<>>
    ELSE IF Head(s) \in {" ", "\t"} THEN Words(Tail(s))
    ELSE IF Tail(s) = <<>> \/ Head(Tail(s)) \in {" ", "\t"}
         THEN << <<Head(s)>> >> \o Words(Tail(s))
         ELSE LET w == Words(Tail(s))
              IN  << <<Head(s)>> \o Head(w) >> \o Tail(w)

\* C15: given is the first whitespace-separated token of the full name and
\* family the remaining tokens joined by single spaces (empty for a name of
\* one token).
C15_GivenIsFirstToken ==
    AuthorsReturned =>
        \A i \in 1..Len(meta.authors) :
            LET words == Words(AuthorElements[i].content)
            IN  words /= <<>> =>
                    /\ meta.authors[i].given = words[1]
                    /\ meta.authors[i].family = Join(Tail(words))

====
